---- MODULE Spec2Model ----
(***************************************************************************)
(* A model of app.py: the Streamlit script that downloads a video,        *)
(* transcribes it, detects caption (telop) changes frame by frame, and    *)
(* presents both streams grouped into one-second buckets.                 *)
(*                                                                         *)
(* Text is a sequence of one-character strings.  Times are integers in    *)
(* milliseconds (the code's floats, for the frame rates modelled, are     *)
(* exact multiples of 1 ms).  OCR confidences and frame rates are         *)
(* integers in tenths, so that 60.5 and 2.5 can be told from 60 and 2.    *)
(***************************************************************************)
EXTENDS Integers, Sequences, FiniteSets, TLC

---------------------------------------------------------------------------
(* Bounds of the model *)

\* the longest video, in decoded frames
MaxFrames == 3
\* the number of times the analysis button is pressed
MaxRuns == 2

---------------------------------------------------------------------------
(* Program constants *)

\* line 80: int(conf) > 60
ConfThreshold == 60
\* line 95: similarity < 0.9, in tenths
SimilarityTenths == 9
\* one second, in the model's time unit (ms)
Second == 1000
\* tenths per unit, for confidences and frame rates
Tenth == 10

None == "None"
TempPath == "temp_video.mp4"

---------------------------------------------------------------------------
(* Text *)

Whitespace == {" "}

RECURSIVE lstrip(_)
lstrip(s) ==
    IF s # <<>> /\ Head(s) \in Whitespace THEN lstrip(Tail(s)) ELSE s

RECURSIVE rstrip(_)
rstrip(s) ==
    IF s # <<>> /\ s[Len(s)] \in Whitespace
    THEN rstrip(SubSeq(s, 1, Len(s) - 1))
    ELSE s

\* str.strip()
strip(s) == rstrip(lstrip(s))

\* "".join(parts)
RECURSIVE join(_)
join(parts) ==
    IF parts = <<>> THEN <<>> ELSE Head(parts) \o join(Tail(parts))

Min(a, b) == IF a <= b THEN a ELSE b

Max(a, b) == IF a >= b THEN a ELSE b

\* the only element of a one-element set
The(S) == CHOOSE x \in S : TRUE

\* one row of the edit-distance table: row i from row i-1 (prev), for the
\* character ai of the first text against all of b; cur holds the cells
\* 0..j-1 of the new row.  (Each new cell and row is bound as a value
\* before the next step uses it.)
RECURSIVE LevRow(_, _, _, _, _)
LevRow(prev, ai, b, cur, j) ==
    IF j > Len(b) THEN cur
    ELSE The({ LevRow(prev, ai, b, Append(cur, cell), j + 1) :
                 cell \in { Min(Min(prev[j + 1] + 1, cur[j] + 1),
                                prev[j] + (IF ai = b[j] THEN 0 ELSE 1)) } })

RECURSIVE LevRows(_, _, _, _)
LevRows(prev, a, b, i) ==
    IF i > Len(a) THEN prev[Len(b) + 1]
    ELSE The({ LevRows(row, a, b, i + 1) :
                 row \in { LevRow(prev, a[i], b, <<i>>, 1) } })

\* Levenshtein.distance(a, b): insertions, deletions and substitutions
Distance(a, b) == LevRows([j \in 1..(Len(b) + 1) |-> j - 1], a, b, 1)

---------------------------------------------------------------------------
(* The inputs the environment can supply *)

HELLO == <<"H", "E", "L", "L", "O">>
WORLD == <<"W", "O", "R", "L", "D">>
GOODBYE == <<"G", "O", "O", "D", "B", "Y", "E">>
HI == <<"h", "i">>
YO == <<"y", "o">>

\* what pytesseract.image_to_data returns with Output.DICT: parallel arrays
\* of recognised tokens and their confidences (tenths)
OcrNone == [text |-> <<>>, conf |-> <<>>]
\* "HELLO" alone
OcrH == [text |-> <<HELLO>>, conf |-> <<900>>]
\* HELLOWORLD
OcrA == [text |-> <<HELLO, WORLD>>, conf |-> <<900, 960>>]
\* HELLOWORLD!, with a token at exactly 60 and a padded token at 61
OcrB == [text |-> <<HELLO, <<"x">>, <<" ">> \o WORLD \o <<"!", " ">>>>,
         conf |-> <<900, 600, 610>>]
\* HELLOWORLD!?, with a blank token of high confidence
OcrC == [text |-> <<HELLO, <<" ", " ">>, WORLD \o <<"!", "?">>>>,
         conf |-> <<900, 950, 700>>]
\* GOODBYE, with a token at 60.5 and a block-level entry (conf -1)
OcrG == [text |-> <<GOODBYE, <<"x">>, <<>>>>, conf |-> <<880, 605, -10>>]
\* nothing confident enough
OcrLow == [text |-> <<HELLO, <<>>>>, conf |-> <<600, -10>>]

OcrOutputs == {OcrNone, OcrH, OcrA, OcrB, OcrC, OcrG, OcrLow}

OcrFew == {OcrNone, OcrA}

\* what whisper's transcribe returns in 'segments': start (ms) and raw text
Seg(t, x) == [start |-> t, text |-> x]

Segments ==
    { <<>>,
      <<Seg(300, <<" ">> \o HI \o <<" ">>)>>,
      <<Seg(1300, HI), Seg(1900, YO)>>,
      <<Seg(500, HI), Seg(500, HI)>>,
      <<Seg(2100, YO), Seg(400, HI), Seg(2600, HI)>> }

SegmentsFew == { <<>>, <<Seg(1300, HI)>> }

\* what cap.get(CAP_PROP_FPS) reports for an opened source, in tenths:
\* 0 (unknown), 1, 2 and 2.5 frames per second
FpsChoices == {0, 10, 20, 25}

\* a url is the sequence of the parts that '&' separates in it
NoUrl == <<"">>

Urls == { NoUrl,
          <<"https://www.youtube.com/watch?v=a">>,
          <<"https://www.youtube.com/watch?v=b", "t=42s">> }

---------------------------------------------------------------------------
(* Telop change detection: the per-frame computations of process_video *)

\* int(x) for x in tenths: truncation toward zero
IntOfTenths(x) == IF x >= 0 THEN x \div Tenth ELSE -((-x) \div Tenth)

\* (mutant) the threshold itself passes
ConfidentEnoughInclusive(conf) == IntOfTenths(conf) >= ConfThreshold

\* the confidence test of line 80
ConfidentEnough(conf) == IntOfTenths(conf) > ConfThreshold

\* lines 78-83: the loop over the recognised tokens
RECURSIVE FilterLoop(_, _, _)
FilterLoop(ocr, i, current_text_parts) ==
    IF i > Len(ocr.text) THEN current_text_parts
    ELSE LET text == strip(ocr.text[i])
         IN  FilterLoop(ocr, i + 1,
                 IF ConfidentEnough(ocr.conf[i]) /\ text # <<>>
                 THEN Append(current_text_parts, text)
                 ELSE current_text_parts)

\* lines 78-85
CurrentTextBlock(ocr) == join(FilterLoop(ocr, 1, <<>>))

\* (mutant) the same test against a threshold of 0.8
SimilarityBelowLowerThreshold(current, last) ==
    LET max_len == Max(Len(current), Len(last))
    IN  /\ max_len > 0
        /\ Tenth * (max_len - Distance(current, last))
              < (SimilarityTenths - 1) * max_len

\* line 94-95: 1.0 - distance / max_len < 0.9, in exact arithmetic
\* (the float comparison agrees with it for every length below 200)
SimilarityBelowThreshold(current, last) ==
    LET max_len == Max(Len(current), Len(last))
    IN  /\ max_len > 0
        /\ Tenth * (max_len - Distance(current, last))
              < SimilarityTenths * max_len

\* (mutant) the test of line 88 is missing
IsNewSubtitleEvenIfEmpty(current, last) ==
    \/ last = <<>>
    \/ SimilarityBelowThreshold(current, last)

\* (mutant) exact-match deduplication
IsNewSubtitleUnlessEqual(current, last) ==
    /\ current # <<>>
    /\ current # last

\* lines 87-96
IsNewSubtitle(current, last) ==
    /\ current # <<>>
    /\ \/ last = <<>>
       \/ SimilarityBelowThreshold(current, last)

\* math.ceil(fps), fps in tenths
CeilFps(f) == (f + Tenth - 1) \div Tenth

\* line 73: frame_count / fps, in ms
Timestamp(fc, f) == (fc * Second * Tenth) \div f

---------------------------------------------------------------------------
(* Event fusion: the display logic's computations *)

\* (mutant) round(x) instead of int(x)
RoundOfMs(x) == (x + Second \div 2) \div Second

\* int(x) for x in ms: truncation toward zero, in whole seconds
IntOfMs(x) == IF x >= 0 THEN x \div Second ELSE -((-x) \div Second)

\* line 136
VoiceEvent(item) ==
    [timestamp |-> item.timestamp, type |-> "voice", data |-> item.text]

\* line 138
TelopEvent(item) ==
    [timestamp |-> item.timestamp, type |-> "telop",
     data |-> item.image_str, text |-> item.text]

\* lines 134-138: the voice events, then the telop events
AllEvents(voice, telop) ==
    [i \in 1..Len(voice) |-> VoiceEvent(voice[i])]
        \o [i \in 1..Len(telop) |-> TelopEvent(telop[i])]

\* the dict of line 140: its keys in insertion order, and the group of each
NoGroups == [keys |-> <<>>, group |-> <<>>]

\* lines 143-144: a bucket is created when its key is first seen
EnsureBucket(grouped, time_key) ==
    IF time_key \in DOMAIN grouped.group THEN grouped
    ELSE [keys |-> Append(grouped.keys, time_key),
          group |-> grouped.group @@
                        (time_key :> [voice |-> <<>>, telop |-> <<>>])]

\* (mutant) the event is put in front of its stream's list
PrependEvent(grouped, time_key, event) ==
    IF event.type = "voice"
    THEN [grouped EXCEPT !.group[time_key].voice = <<event>> \o @]
    ELSE [grouped EXCEPT !.group[time_key].telop = <<event>> \o @]

\* lines 146-149: the event joins the end of its stream's list
AppendEvent(grouped, time_key, event) ==
    IF event.type = "voice"
    THEN [grouped EXCEPT !.group[time_key].voice = Append(@, event)]
    ELSE [grouped EXCEPT !.group[time_key].telop = Append(@, event)]

\* lines 141-149: the loop over all_events
RECURSIVE GroupLoop(_, _, _)
GroupLoop(all_events, i, grouped) ==
    IF i > Len(all_events) THEN grouped
    ELSE LET event == all_events[i]
             time_key == IntOfMs(event.timestamp)
         IN  GroupLoop(all_events, i + 1,
                 AppendEvent(EnsureBucket(grouped, time_key), time_key, event))

GroupedEvents(voice, telop) == GroupLoop(AllEvents(voice, telop), 1, NoGroups)

RECURSIVE Insert(_, _)
Insert(x, s) ==
    IF s = <<>> THEN <<x>>
    ELSE IF x <= Head(s) THEN <<x>> \o s
    ELSE <<Head(s)>> \o Insert(x, Tail(s))

\* sorted(keys), ascending
RECURSIVE Sorted(_)
Sorted(s) == IF s = <<>> THEN <<>> ELSE Insert(Head(s), Sorted(Tail(s)))

\* (mutant) the keys in the dict's own order
UnsortedTimestamps(grouped) == grouped.keys

\* line 152
SortedTimestamps(grouped) == Sorted(grouped.keys)

\* line 157: str(timedelta(seconds=ts)), as hours, minutes and seconds
TimeStr(ts) ==
    [h |-> ts \div 3600, m |-> (ts % 3600) \div 60, s |-> ts % 60]

\* line 158: the part of the url before its first '&', then "&t=<ts>s"
JumpUrl(url, ts) == [base |-> Head(url), t |-> ts]

\* lines 162 and 169: the heading of a bucket, a link, in a column
Heading(col, url, ts) ==
    [kind |-> "heading", col |-> col, jump_url |-> JumpUrl(url, ts),
     time_str |-> TimeStr(ts)]

\* lines 160-164: the voice column of a bucket
VoiceColumn(group, url, ts) ==
    IF group.voice # <<>>
    THEN <<Heading(1, url, ts)>> \o
         [j \in 1..Len(group.voice) |->
             [kind |-> "quote", col |-> 1, text |-> group.voice[j].data]]
    ELSE <<>>

\* lines 171-173: the image and the caption of each telop event
RECURSIVE TelopElements(_)
TelopElements(telop) ==
    IF telop = <<>> THEN <<>>
    ELSE << [kind |-> "image", col |-> 2, data |-> Head(telop).data],
            [kind |-> "caption", col |-> 2, text |-> Head(telop).text] >>
         \o TelopElements(Tail(telop))

\* (mutant) the telop column has its heading whatever the voice column has
TelopColumnAlwaysHeaded(group, url, ts) ==
    IF group.telop # <<>>
    THEN <<Heading(2, url, ts)>> \o TelopElements(group.telop)
    ELSE <<>>

\* lines 166-173: the telop column of a bucket
TelopColumn(group, url, ts) ==
    IF group.telop # <<>>
    THEN (IF group.voice = <<>> THEN <<Heading(2, url, ts)>> ELSE <<>>)
         \o TelopElements(group.telop)
    ELSE <<>>

\* line 151
Subheader == [kind |-> "subheader", col |-> 0]

\* lines 154-174: the loop over the buckets; what it puts on the page
RECURSIVE RenderLoop(_, _, _)
RenderLoop(timestamps, grouped, url) ==
    IF timestamps = <<>> THEN <<>>
    ELSE LET ts == Head(timestamps)
             group == grouped.group[ts]
         IN  VoiceColumn(group, url, ts) \o TelopColumn(group, url, ts)
             \o << [kind |-> "rule", col |-> 0] >>
             \o RenderLoop(Tail(timestamps), grouped, url)

---------------------------------------------------------------------------
(* State *)

VARIABLES
    pc,                 \* where the script is
    youtube_url,        \* the text input's value
    session_state,      \* st.session_state: whether 'results' is set, and to what
    cache,              \* st.cache_data's store for process_video, by url
    runs,               \* how often the button was pressed
    video_path,         \* process_video's locals ...
    error,              \* the exception in flight, or None
    voice_data,
    cap,                \* the VideoCapture: unset, opened, unopened, released
    fps,
    n_frames,           \* the frames the source can still deliver, in all
    total_frames,       \* the frame count the container reports
    frame_count,
    ocr_data,
    current_text_block,
    last_text_block,
    telop_screenshots,
    file_exists,        \* whether the file temp_video.mp4 is on disk
    progress_bar,       \* the values passed to the progress bar on this page
    other,              \* the run of process_video in another browser session
    grouped_events,     \* the display logic's locals
    sorted_timestamps,
    rendered            \* what the display logic has put on the page

locals == <<video_path, error, voice_data, cap, fps, n_frames, total_frames,
            frame_count, ocr_data, current_text_block, last_text_block,
            telop_screenshots>>

display == <<grouped_events, sorted_timestamps, rendered>>

vars == <<pc, youtube_url, session_state, cache, runs, locals, file_exists,
          progress_bar, other, display>>

NoSession == [has_results |-> FALSE, results |-> None]

\* the other session when it runs nothing
NoRun == [pc |-> "Idle", url |-> NoUrl, video_path |-> None, error |-> None]

\* the locals of process_video before the call and after it
FreshLocals ==
    /\ video_path' = None
    /\ error' = None
    /\ voice_data' = <<>>
    /\ cap' = "unset"
    /\ fps' = 0
    /\ n_frames' = 0
    /\ total_frames' = 0
    /\ frame_count' = 0
    /\ ocr_data' = OcrNone
    /\ current_text_block' = <<>>
    /\ last_text_block' = <<>>
    /\ telop_screenshots' = <<>>

\* the display logic's names at the start of a script run
FreshDisplay ==
    /\ grouped_events' = NoGroups
    /\ sorted_timestamps' = <<>>
    /\ rendered' = <<>>

Init ==
    /\ pc = "Idle"
    /\ youtube_url = NoUrl
    /\ session_state = NoSession
    /\ cache = [u \in Urls |-> None]
    /\ runs = 0
    /\ video_path = None
    /\ error = None
    /\ voice_data = <<>>
    /\ cap = "unset"
    /\ fps = 0
    /\ n_frames = 0
    /\ total_frames = 0
    /\ frame_count = 0
    /\ ocr_data = OcrNone
    /\ current_text_block = <<>>
    /\ last_text_block = <<>>
    /\ telop_screenshots = <<>>
    /\ file_exists = FALSE
    /\ progress_bar = <<>>
    /\ other = NoRun
    /\ grouped_events = NoGroups
    /\ sorted_timestamps = <<>>
    /\ rendered = <<>>

---------------------------------------------------------------------------
(* The script: url input, analysis button, process_video, display logic *)

\* line 119: the user edits the url field; the script reruns from the top
\* with the button not pressed, and reaches the display logic
EditUrl(u) ==
    /\ pc = "Idle"
    /\ u # youtube_url
    /\ youtube_url' = u
    /\ pc' = "Display"
    /\ progress_bar' = <<>>
    /\ FreshDisplay
    /\ UNCHANGED <<other, session_state, cache, runs, locals, file_exists>>

\* lines 121-127: the button is pressed.  Without a url the script warns;
\* while another session computes the value for the same url the call waits
\* (st.cache_data computes one value per key at a time);
\* with a url st.cache_data answers from its store when it can (line 30),
\* and otherwise process_video starts and creates the progress bar at 0
\* (lines 31-38)
PressButton ==
    /\ pc = "Idle"
    /\ runs < MaxRuns
    /\ ~(other.pc # "Idle" /\ other.url = youtube_url)
    /\ runs' = runs + 1
    /\ FreshDisplay
    /\ UNCHANGED <<other, youtube_url, cache, locals, file_exists>>
    /\ IF youtube_url = NoUrl
       THEN /\ pc' = "Display"
            /\ progress_bar' = <<>>
            /\ UNCHANGED session_state
       ELSE IF cache[youtube_url] # None
       THEN /\ session_state' =
                   [has_results |-> TRUE, results |-> cache[youtube_url]]
            /\ pc' = "Display"
            /\ progress_bar' = <<>>
       ELSE /\ pc' = "Downloading"
            /\ progress_bar' = <<0>>
            /\ UNCHANGED session_state

\* (mutant) the exception is recorded but the pipeline goes on to the stage
\* after the one that failed
RaiseAndGoOn(e) ==
    /\ error' = e
    /\ pc' = IF pc = "Downloading" THEN "Transcribing" ELSE "DetectingTelops"

\* an exception inside the try block: control goes to the finally clause
Raise(e) ==
    /\ error' = e
    /\ pc' = "Cleanup"

\* lines 41-52: yt-dlp downloads to temp_video.<ext>, or raises (the cookie
\* file of lines 14-22 and 35-48 only changes what yt-dlp is asked for)
Download ==
    /\ pc = "Downloading"
    /\ progress_bar' = Append(progress_bar, 5)
    /\ \/ /\ file_exists' = TRUE
          /\ video_path' = TempPath
          /\ pc' = "Transcribing"
          /\ UNCHANGED error
       \/ /\ Raise("DownloadError")
          /\ UNCHANGED <<file_exists, video_path>>
    /\ UNCHANGED <<other, youtube_url, session_state, cache, runs, voice_data, cap,
                   fps, n_frames, total_frames, frame_count, ocr_data,
                   current_text_block, last_text_block, telop_screenshots,
                   display>>

\* line 57: timestamp and stripped text of every segment
VoiceData(segments) ==
    [i \in 1..Len(segments) |->
        [timestamp |-> segments[i].start, text |-> strip(segments[i].text)]]

\* lines 54-57: whisper transcribes the file if it is there, or raises
Transcribe(choices) ==
    /\ pc = "Transcribing"
    /\ progress_bar' = Append(progress_bar, 25)
    /\ \/ \E segments \in choices :
             /\ file_exists
             /\ voice_data' = VoiceData(segments)
             /\ pc' = "DetectingTelops"
             /\ UNCHANGED error
       \/ /\ Raise("TranscribeError")
          /\ UNCHANGED voice_data
    /\ UNCHANGED <<other, youtube_url, session_state, cache, runs, video_path, cap,
                   fps, n_frames, total_frames, frame_count, ocr_data,
                   current_text_block, last_text_block, telop_screenshots,
                   file_exists, display>>

\* what cap.get(CAP_PROP_FRAME_COUNT) reports for a source of n frames:
\* nothing, the number of frames, or fewer (the container's header need
\* not agree with what the decoder delivers)
TotalFramesChoices(n) == {0, 1, n}

\* lines 59-66: the capture is created; it may fail to open the file (it
\* does when the file is gone), and then reports a frame rate and a frame
\* count of 0
OpenCapture ==
    /\ pc = "DetectingTelops"
    /\ cap = "unset"
    /\ progress_bar' = Append(progress_bar, 65)
    /\ \/ \E f \in FpsChoices, n \in 0..MaxFrames :
             \E total \in TotalFramesChoices(n) :
                 /\ file_exists
                 /\ cap' = "opened"
                 /\ fps' = f
                 /\ n_frames' = n
                 /\ total_frames' = total
       \/ /\ cap' = "unopened"
          /\ fps' = 0
          /\ n_frames' = 0
          /\ total_frames' = 0
    /\ telop_screenshots' = <<>>
    /\ last_text_block' = <<>>
    /\ frame_count' = 0
    /\ UNCHANGED <<other, pc, youtube_url, session_state, cache, runs, video_path,
                   error, voice_data, ocr_data, current_text_block,
                   file_exists, display>>

\* line 101: the event of a new caption (the image payload is the frame's)
Screenshot(fc, f, text) ==
    [timestamp |-> Timestamp(fc, f), image_str |-> fc, text |-> text]

\* (mutant) a frame without text makes the detector forget the last block
DetectTelopForgettingOnEmpty(ocr) ==
    LET current == CurrentTextBlock(ocr)
        is_new_subtitle == IsNewSubtitle(current, last_text_block)
    IN  /\ ocr_data' = ocr
        /\ current_text_block' = current
        /\ telop_screenshots' =
               IF is_new_subtitle
               THEN Append(telop_screenshots,
                           Screenshot(frame_count, fps, current))
               ELSE telop_screenshots
        /\ last_text_block' =
               IF is_new_subtitle \/ current = <<>>
               THEN current ELSE last_text_block

\* (mutant) the detector remembers the last block seen, not the last one
\* emitted
DetectTelopLastSeen(ocr) ==
    LET current == CurrentTextBlock(ocr)
        is_new_subtitle == IsNewSubtitle(current, last_text_block)
    IN  /\ ocr_data' = ocr
        /\ current_text_block' = current
        /\ telop_screenshots' =
               IF is_new_subtitle
               THEN Append(telop_screenshots,
                           Screenshot(frame_count, fps, current))
               ELSE telop_screenshots
        /\ last_text_block' = current

\* lines 77-102: a sampled frame whose OCR call returned ocr
DetectTelop(ocr) ==
    LET current == CurrentTextBlock(ocr)
        is_new_subtitle == IsNewSubtitle(current, last_text_block)
    IN  /\ ocr_data' = ocr
        /\ current_text_block' = current
        /\ telop_screenshots' =
               IF is_new_subtitle
               THEN Append(telop_screenshots,
                           Screenshot(frame_count, fps, current))
               ELSE telop_screenshots
        /\ last_text_block' =
               IF is_new_subtitle THEN current ELSE last_text_block

\* line 72: whether this frame is one of the sampled ones
Sampled(fc, f) == fc % CeilFps(f) = 0

\* (mutant) the detector's slot is cleared before the OCR call that raises
OcrRaisesAfterReset ==
    /\ Raise("TesseractError")
    /\ last_text_block' = <<>>
    /\ UNCHANGED <<frame_count, ocr_data, current_text_block,
                   telop_screenshots, progress_bar>>

\* line 77: the OCR call raises, before anything of this frame is recorded
OcrRaises ==
    /\ Raise("TesseractError")
    /\ UNCHANGED <<frame_count, ocr_data, current_text_block,
                   last_text_block, telop_screenshots, progress_bar>>

\* line 104: 65 + int(30 * (frame_count / total_frames)), or 65 when no
\* total is known (the float expression agrees with the integer one for
\* every frame_count below 41)
ProgressValue(fc, total) ==
    IF total > 0 THEN 65 + (30 * fc) \div total ELSE 65

\* st.progress accepts an int from 0 to 100 and raises for any other
AcceptedByProgress(value) == value \in 0..100

\* lines 104-107: the progress bar is given this frame's value; when it
\* accepts it the frame is counted, when it raises the loop is left
UpdateProgress ==
    LET progress_value == ProgressValue(frame_count, total_frames)
    IN  /\ progress_bar' = Append(progress_bar, progress_value)
        /\ IF AcceptedByProgress(progress_value)
           THEN /\ frame_count' = frame_count + 1
                /\ UNCHANGED <<pc, error>>
           ELSE /\ Raise("StreamlitAPIException")
                /\ UNCHANGED frame_count

\* lines 68-107: one turn of the frame loop with a frame read
ReadFrame(choices) ==
    /\ pc = "DetectingTelops"
    /\ cap = "opened"
    /\ frame_count < n_frames
    /\ IF CeilFps(fps) = 0
       THEN /\ Raise("ZeroDivisionError")
            /\ UNCHANGED <<frame_count, ocr_data, current_text_block,
                           last_text_block, telop_screenshots, progress_bar>>
       ELSE IF Sampled(frame_count, fps)
       THEN \/ /\ \E ocr \in choices : DetectTelop(ocr)
               /\ UpdateProgress
            \/ OcrRaises
       ELSE /\ frame_count' = frame_count + 1
            /\ UNCHANGED <<pc, error, ocr_data, current_text_block,
                           last_text_block, telop_screenshots, progress_bar>>
    /\ UNCHANGED <<other, youtube_url, session_state, cache, runs, video_path,
                   voice_data, cap, fps, n_frames, total_frames, file_exists,
                   display>>

\* lines 68-70 and 108: the loop ends, because the capture is not opened or
\* because no frame is left, and the capture is released (which changes
\* nothing when it never opened)
EndLoop ==
    /\ pc = "DetectingTelops"
    /\ \/ cap = "unopened"
       \/ cap = "opened" /\ frame_count = n_frames
    /\ cap' = IF cap = "opened" THEN "released" ELSE cap
    /\ pc' = "Cleanup"
    /\ UNCHANGED <<other, youtube_url, session_state, cache, runs, video_path,
                   error, voice_data, fps, n_frames, total_frames,
                   frame_count, ocr_data, current_text_block, last_text_block,
                   telop_screenshots, file_exists, progress_bar, display>>

\* (mutant) the finally clause swallows the exception in flight
AfterFinallySwallowing(e) == "Done"

\* where control goes after the finally clause: line 112 on, or out of the
\* function with the exception
AfterFinally(e) == IF e = None THEN "Done" ELSE "Failed"

\* (mutant) the file is deleted at the end of the try block, not in a
\* finally clause: a run that raised leaves it behind
CleanupOnSuccessOnly ==
    /\ pc = "Cleanup"
    /\ IF error = None /\ video_path # None /\ file_exists
       THEN \/ /\ file_exists' = FALSE
               /\ pc' = AfterFinally(error)
               /\ UNCHANGED error
            \/ /\ error' = "OSError"
               /\ pc' = AfterFinally("OSError")
               /\ UNCHANGED file_exists
       ELSE /\ pc' = AfterFinally(error)
            /\ UNCHANGED <<error, file_exists>>
    /\ UNCHANGED <<other, youtube_url, session_state, cache, runs, video_path,
                   voice_data, cap, fps, n_frames, total_frames, frame_count,
                   ocr_data, current_text_block, last_text_block,
                   telop_screenshots, progress_bar, display>>

\* lines 109-110: the finally clause.  os.remove deletes the file or raises,
\* and its exception replaces the one in flight
Cleanup ==
    /\ pc = "Cleanup"
    /\ IF video_path # None /\ file_exists
       THEN \/ /\ file_exists' = FALSE
               /\ pc' = AfterFinally(error)
               /\ UNCHANGED error
            \/ /\ error' = "OSError"
               /\ pc' = AfterFinally("OSError")
               /\ UNCHANGED file_exists
       ELSE /\ pc' = AfterFinally(error)
            /\ UNCHANGED <<error, file_exists>>
    /\ UNCHANGED <<other, youtube_url, session_state, cache, runs, video_path,
                   voice_data, cap, fps, n_frames, total_frames, frame_count,
                   ocr_data, current_text_block, last_text_block,
                   telop_screenshots, progress_bar, display>>

\* lines 112-113, 30 and 125: the progress bar is set to 100,
\* process_video returns, st.cache_data stores
\* the value under the url, and the script keeps it in the session
Return ==
    /\ pc = "Done"
    /\ LET value == <<voice_data, telop_screenshots>>
       IN  /\ cache' = [cache EXCEPT ![youtube_url] = value]
           /\ session_state' = [has_results |-> TRUE, results |-> value]
    /\ progress_bar' = Append(progress_bar, 100)
    /\ pc' = "Display"
    /\ FreshLocals
    /\ UNCHANGED <<other, youtube_url, runs, file_exists, display>>

\* the exception leaves process_video and ends the script run: line 125's
\* assignment and the display logic are not executed
Propagate ==
    /\ pc = "Failed"
    /\ pc' = "Idle"
    /\ FreshLocals
    /\ UNCHANGED <<other, youtube_url, session_state, cache, runs, file_exists,
                   progress_bar, display>>

\* lines 131-174: the display logic
Display ==
    /\ pc = "Display"
    /\ IF session_state.has_results /\ session_state.results # <<>>
       THEN LET voice == session_state.results[1]
                telop == session_state.results[2]
                grouped == GroupedEvents(voice, telop)
            IN  /\ grouped_events' = grouped
                /\ sorted_timestamps' = SortedTimestamps(grouped)
                /\ rendered' = <<Subheader>> \o
                       RenderLoop(SortedTimestamps(grouped), grouped,
                                  youtube_url)
       ELSE UNCHANGED display
    /\ pc' = "Idle"
    /\ UNCHANGED <<other, youtube_url, session_state, cache, runs, locals,
                   file_exists, progress_bar>>

\* the program with few inputs and several runs
Next ==
    \/ \E u \in Urls : EditUrl(u)
    \/ PressButton
    \/ Download
    \/ Transcribe(SegmentsFew)
    \/ OpenCapture
    \/ ReadFrame(OcrFew)
    \/ EndLoop
    \/ Cleanup
    \/ Return
    \/ Propagate
    \/ Display

Spec == Init /\ [][Next]_vars

\* the program with every modelled input
NextRich ==
    \/ \E u \in Urls : EditUrl(u)
    \/ PressButton
    \/ Download
    \/ Transcribe(Segments)
    \/ OpenCapture
    \/ ReadFrame(OcrOutputs)
    \/ EndLoop
    \/ Cleanup
    \/ Return
    \/ Propagate
    \/ Display

\* the state before the last run the model follows: the button was pressed
\* MaxRuns - 1 times with the url field empty, which only warns
InitLastRun ==
    /\ pc = "Idle"
    /\ youtube_url = NoUrl
    /\ session_state = NoSession
    /\ cache = [u \in Urls |-> None]
    /\ runs = MaxRuns - 1
    /\ video_path = None
    /\ error = None
    /\ voice_data = <<>>
    /\ cap = "unset"
    /\ fps = 0
    /\ n_frames = 0
    /\ total_frames = 0
    /\ frame_count = 0
    /\ ocr_data = OcrNone
    /\ current_text_block = <<>>
    /\ last_text_block = <<>>
    /\ telop_screenshots = <<>>
    /\ file_exists = FALSE
    /\ progress_bar = <<>>
    /\ other = NoRun
    /\ grouped_events = NoGroups
    /\ sorted_timestamps = <<>>
    /\ rendered = <<>>

\* one run of the analysis over every modelled input
SpecRich == InitLastRun /\ [][NextRich]_vars

---------------------------------------------------------------------------
(* Another browser session running the same script: of its run of
   process_video, what touches the things the sessions share, the file
   temp_video.mp4 and st.cache_data's store *)

\* lines 121-125 and 30-38 in the other session: the button is pressed with
\* a url the store has no value for; the call waits while this session
\* computes the value for the same url
OtherPressButton(u) ==
    /\ other.pc = "Idle"
    /\ cache[u] = None
    /\ ~(pc \notin {"Idle", "Display"} /\ youtube_url = u)
    /\ other' = [pc |-> "Downloading", url |-> u, video_path |-> None,
                 error |-> None]
    /\ UNCHANGED <<pc, youtube_url, session_state, cache, runs, locals,
                   file_exists, progress_bar, display>>

\* lines 41-52 in the other session: yt-dlp writes temp_video.<ext>
OtherDownload ==
    /\ other.pc = "Downloading"
    /\ \/ /\ file_exists' = TRUE
          /\ other' = [other EXCEPT !.pc = "Transcribing",
                                    !.video_path = TempPath]
       \/ /\ other' = [other EXCEPT !.pc = "Cleanup",
                                    !.error = "DownloadError"]
          /\ UNCHANGED file_exists
    /\ UNCHANGED <<pc, youtube_url, session_state, cache, runs, locals,
                   progress_bar, display>>

\* lines 54-57 in the other session: whisper reads the file
OtherTranscribe ==
    /\ other.pc = "Transcribing"
    /\ \/ /\ file_exists
          /\ other' = [other EXCEPT !.pc = "DetectingTelops"]
       \/ other' = [other EXCEPT !.pc = "Cleanup",
                                 !.error = "TranscribeError"]
    /\ UNCHANGED <<pc, youtube_url, session_state, cache, runs, locals,
                   file_exists, progress_bar, display>>

\* lines 59-108 in the other session: the frame loop, from its first turn
\* to its end or to the exception that leaves it
OtherDetectTelops ==
    /\ other.pc = "DetectingTelops"
    /\ \/ other' = [other EXCEPT !.pc = "Cleanup"]
       \/ other' = [other EXCEPT !.pc = "Cleanup",
                                 !.error = "TesseractError"]
    /\ UNCHANGED <<pc, youtube_url, session_state, cache, runs, locals,
                   file_exists, progress_bar, display>>

\* lines 109-110 in the other session: the finally clause
OtherCleanup ==
    /\ other.pc = "Cleanup"
    /\ IF other.video_path # None /\ file_exists
       THEN \/ /\ file_exists' = FALSE
               /\ other' = [other EXCEPT !.pc = AfterFinally(other.error)]
            \/ /\ other' = [other EXCEPT !.pc = AfterFinally("OSError"),
                                         !.error = "OSError"]
               /\ UNCHANGED file_exists
       ELSE /\ other' = [other EXCEPT !.pc = AfterFinally(other.error)]
            /\ UNCHANGED file_exists
    /\ UNCHANGED <<pc, youtube_url, session_state, cache, runs, locals,
                   progress_bar, display>>

\* lines 112-113 and 30 in the other session: the value (of a video
\* without speech or captions) is stored under the url
OtherReturn ==
    /\ other.pc = "Done"
    /\ cache' = [cache EXCEPT ![other.url] = << <<>>, <<>> >>]
    /\ other' = NoRun
    /\ UNCHANGED <<pc, youtube_url, session_state, runs, locals, file_exists,
                   progress_bar, display>>

\* the exception ends the other session's script run
OtherPropagate ==
    /\ other.pc = "Failed"
    /\ other' = NoRun
    /\ UNCHANGED <<pc, youtube_url, session_state, cache, runs, locals,
                   file_exists, progress_bar, display>>

\* the program with few inputs and a second session
NextConcurrent ==
    \/ \E u \in Urls : EditUrl(u)
    \/ PressButton
    \/ Download
    \/ Transcribe(SegmentsFew)
    \/ OpenCapture
    \/ ReadFrame(OcrFew)
    \/ EndLoop
    \/ Cleanup
    \/ Return
    \/ Propagate
    \/ Display
    \/ \E u \in Urls \ {NoUrl} : OtherPressButton(u)
    \/ OtherDownload
    \/ OtherTranscribe
    \/ OtherDetectTelops
    \/ OtherCleanup
    \/ OtherReturn
    \/ OtherPropagate

\* one run of the analysis in this session while another session runs its
\* own
SpecConcurrent == InitLastRun /\ [][NextConcurrent]_vars

---------------------------------------------------------------------------
(* Orchestration *)

\* process_video has exited: by return (Done) or by exception (Failed)
Exited == pc \in {"Done", "Failed"}

Stages == {"Downloading", "Transcribing", "DetectingTelops", "Cleanup"}

\* the stage that follows each stage when nothing fails
StageAfter(stage) ==
    CASE stage = "Downloading" -> "Transcribing"
      [] stage = "Transcribing" -> "DetectingTelops"
      [] stage = "DetectingTelops" -> "Cleanup"
      [] stage = "Cleanup" -> "Done"

\* C4: the stages of a run are entered in the order Downloading,
\* Transcribing, DetectingTelops, Cleanup, one at a time and each at most
\* once; once a stage has failed no later processing stage is entered,
\* Cleanup still runs, and the run ends Failed, not Done.
C4_StageSequencing ==
    [][ /\ (pc' # pc /\ pc' = "Downloading") => pc = "Idle"
        /\ (pc \in Stages /\ pc' # pc) =>
               \/ pc' = StageAfter(pc) /\ error' = None
               \/ pc' = "Cleanup" /\ error' # None
               \/ pc = "Cleanup" /\ pc' = "Failed" /\ error' # None
        /\ (pc \in Stages /\ error # None) => (pc = "Cleanup" /\ pc' = "Failed")
        /\ (pc' # pc /\ pc' \in (Stages \ {"Downloading"}) \cup {"Done", "Failed"}) =>
               pc \in Stages
      ]_vars

\* a run that failed in Transcribing: the capture was never created, the
\* file is deleted and the run has ended Failed
C4_Witness ==
    /\ pc = "Failed"
    /\ error = "TranscribeError"
    /\ cap = "unset"
    /\ ~file_exists

\* C5: a run that fails at any stage stores nothing: the session's results
\* and the cache change only when a run returns without an exception after
\* its frame loop has ended, or when the cache answers with such a value;
\* and the step that lets the exception out goes to no display logic.
C5_NoPartialResults ==
    [][ /\ session_state' # session_state =>
               /\ session_state'.has_results
               /\ \/ /\ pc = "Done"
                     /\ error = None
                     /\ cap \in {"released", "unopened"}
                     /\ session_state'.results = <<voice_data, telop_screenshots>>
                  \/ /\ pc = "Idle"
                     /\ cache[youtube_url] # None
                     /\ session_state'.results = cache[youtube_url]
        /\ cache' # cache =>
               /\ pc = "Done"
               /\ error = None
               /\ cap \in {"released", "unopened"}
               /\ cache' = [cache EXCEPT ![youtube_url] =
                                <<voice_data, telop_screenshots>>]
        /\ pc = "Failed" =>
               /\ pc' = "Idle"
               /\ UNCHANGED <<session_state, cache, display>>
        /\ (pc = "Cleanup" /\ error # None) => pc' = "Failed"
      ]_vars

\* a second run that failed after transcription, while the session still
\* holds the first run's results
C5_Witness ==
    /\ pc = "Failed"
    /\ voice_data # <<>>
    /\ session_state.has_results
    /\ session_state.results[1] = <<>>

\* C10 as stated: a source that cannot be opened for decoding makes the run
\* fail; the run never returns a result for it.
C10_UnopenableSourceIsFatal ==
    (Exited /\ cap = "unopened") => pc = "Failed"

\* this step is the finally clause calling os.remove and the call raising:
\* the file was there and still is
RemoveRaisedStep ==
    /\ pc = "Cleanup"
    /\ video_path # None
    /\ file_exists
    /\ file_exists'

\* C14 as stated: when deleting the temporary file fails, a run whose
\* stages all succeeded still returns its result, and a run that had
\* already failed still reports its earlier error, not the cleanup error.
C14_CleanupFailureNeitherFatalNorMasking ==
    [][ RemoveRaisedStep =>
            /\ error' = error
            /\ error = None => pc' = "Done" ]_vars

\* C18 as stated: within a run the percentages passed to the progress bar
\* (0, 5, 25, 65, the value of each sampled frame, then 100) never decrease
\* and every one of them is within 0..100, whatever total_frames the
\* container reports, also when it is smaller than the number of frames
\* read.
C18_ProgressMonotoneWithinRange ==
    /\ \A i \in 1..Len(progress_bar) : progress_bar[i] \in 0..100
    /\ \A i \in 1..(Len(progress_bar) - 1) :
           progress_bar[i] <= progress_bar[i + 1]

\* C11 as stated: a request made while another run, for the same or for a
\* different url, is between Downloading and the end of Cleanup waits or is
\* served from the cache: two runs of the pipeline are never at the same
\* time between Downloading and the end of Cleanup, where they use the one
\* path temp_video.<ext>, and no run's Cleanup deletes the file while
\* another run is still to read it.
C11_NoTempPathRace ==
    [][ /\ ~(pc' \in Stages /\ other'.pc \in Stages)
        /\ (file_exists /\ ~file_exists') =>
               /\ other.pc = "Cleanup" => pc \notin Stages
               /\ pc = "Cleanup" => other.pc \notin Stages ]_vars

---------------------------------------------------------------------------
(* Telop change detection *)

\* normalized edit-distance similarity of two texts is at least 0.9
SimilarAtLeastThreshold(a, b) ==
    LET longer == Max(Len(a), Len(b))
    IN  Tenth * Distance(a, b) <= longer

\* this step is the frame loop's turn for a sampled frame whose OCR call
\* returned
SampledFrameStep ==
    /\ pc = "DetectingTelops"
    /\ cap = "opened"
    /\ CeilFps(fps) > 0
    /\ frame_count % CeilFps(fps) = 0
    /\ frame_count' = frame_count + 1

\* C2 as stated: when the non-empty text blocks of two successive sampled
\* frames have similarity >= 0.9 to each other, the second produces no
\* TelopEvent.
C2_SecondOfSimilarPairNotEmitted ==
    [][ ( /\ SampledFrameStep
          /\ current_text_block # <<>>
          /\ current_text_block' # <<>>
          /\ SimilarAtLeastThreshold(current_text_block, current_text_block') )
        => telop_screenshots' = telop_screenshots ]_vars

\* C2, amended: when the non-empty text block of a sampled frame has
\* similarity >= 0.9 to the last emitted block (which is the previous
\* detection only if that one was emitted), the frame produces no TelopEvent
\* and the last emitted block stays.
C2_SimilarToLastEmittedNotEmitted ==
    [][ ( /\ SampledFrameStep
          /\ last_text_block # <<>>
          /\ current_text_block' # <<>>
          /\ SimilarAtLeastThreshold(last_text_block, current_text_block') )
        => UNCHANGED <<telop_screenshots, last_text_block>> ]_vars

\* HELLOWORLD was emitted, and HELLOWORLD! on the next sampled frame was not
C2_Witness ==
    /\ pc = "DetectingTelops"
    /\ last_text_block = HELLO \o WORLD
    /\ current_text_block = HELLO \o WORLD \o <<"!">>
    /\ Len(telop_screenshots) = 1
    /\ frame_count = 2

\* C3 as stated: an OCR call that raises does not abort the run; detection
\* goes on.
C3_OcrFailureNotFatal ==
    error = "TesseractError" => pc = "DetectingTelops"

\* C3, amended: an OCR call that raises on a sampled frame emits no
\* TelopEvent and leaves last_text_block as it was, but it is fatal: no
\* further frame is read, Cleanup runs, the run ends Failed and stores no
\* result.
C3_OcrFailureIsFatal ==
    [][ /\ (pc = "DetectingTelops" /\ error' = "TesseractError") =>
               /\ frame_count % CeilFps(fps) = 0
               /\ pc' = "Cleanup"
               /\ UNCHANGED <<telop_screenshots, last_text_block, frame_count>>
        /\ (pc = "Cleanup" /\ error = "TesseractError") =>
               /\ pc' = "Failed"
               /\ error' # None
               /\ UNCHANGED <<telop_screenshots, last_text_block, frame_count>>
        /\ (pc = "Failed" /\ error = "TesseractError") =>
               UNCHANGED <<session_state, cache>>
      ]_vars

\* the OCR call raised on the second of three frames, after the first had
\* emitted HELLOWORLD: the run has ended Failed with one frame never read
C3_Witness ==
    /\ pc = "Failed"
    /\ error = "TesseractError"
    /\ last_text_block = HELLO \o WORLD
    /\ Len(telop_screenshots) = 1
    /\ frame_count = 1
    /\ n_frames = 3

\* the tokens of an OCR result, in recognition order
Tokens(ocr) ==
    [i \in 1..Len(ocr.text) |-> [text |-> ocr.text[i], conf |-> ocr.conf[i]]]

\* the texts of a sequence of tokens
Texts(tokens) == [i \in 1..Len(tokens) |-> tokens[i].text]

\* the stripped texts of a sequence of tokens
StrippedTexts(tokens) == [i \in 1..Len(tokens) |-> strip(tokens[i].text)]

AboveThreshold(token) == token.conf > ConfThreshold * Tenth

TruncatedAboveThreshold(token) == token.conf >= (ConfThreshold + 1) * Tenth

\* C9 as stated: current_text_block is the concatenation, in recognition
\* order and without separator, of the texts of exactly the tokens whose
\* confidence is above 60.
C9_ConfidentTokensConcatenated ==
    current_text_block = join(Texts(SelectSeq(Tokens(ocr_data), AboveThreshold)))

\* C9, amended: current_text_block is the concatenation, in recognition
\* order and without separator, of the texts, stripped of surrounding
\* whitespace, of exactly the tokens whose confidence truncated to an
\* integer is above 60 (61 or more); tokens at 60 or below contribute
\* nothing.
C9_ConfidentTokensStrippedConcatenated ==
    current_text_block =
        join(StrippedTexts(SelectSeq(Tokens(ocr_data), TruncatedAboveThreshold)))

\* a frame with a token at exactly 60 (dropped) and a padded token at 61
\* (kept, stripped)
C9_Witness ==
    /\ ocr_data = OcrB
    /\ current_text_block = HELLO \o WORLD \o <<"!">>

\* C12: on a sampled frame a TelopEvent is emitted if and only if the
\* frame's text block is non-empty and either last_text_block is empty or
\* 10 * levenshtein(current, last) > max(len(current), len(last)); when one
\* is emitted it is exactly one, appended to the list, with this frame's
\* timestamp frame_count / fps and the frame's text block, and
\* last_text_block becomes that text block.
C12_NoveltyDecision ==
    [][ SampledFrameStep =>
            LET current == current_text_block'
                last == last_text_block
                novel ==
                    /\ current # <<>>
                    /\ \/ last = <<>>
                       \/ Tenth * Distance(current, last)
                              > Max(Len(current), Len(last))
                n == Len(telop_screenshots)
            IN  /\ (telop_screenshots' # telop_screenshots) <=> novel
                /\ novel =>
                       /\ Len(telop_screenshots') = n + 1
                       /\ SubSeq(telop_screenshots', 1, n) = telop_screenshots
                       /\ telop_screenshots'[n + 1].timestamp * fps
                              = frame_count * Second * Tenth
                       /\ telop_screenshots'[n + 1].text = current
                       /\ last_text_block' = current ]_vars

\* scenarios A and C: HELLO was emitted on the first frame (nothing before
\* it) and GOODBYE on the second, one second later
C12_Witness ==
    /\ pc = "DetectingTelops"
    /\ fps = Tenth
    /\ frame_count = 2
    /\ Len(telop_screenshots) = 2
    /\ telop_screenshots[1].text = HELLO
    /\ telop_screenshots[2].text = GOODBYE
    /\ telop_screenshots[2].timestamp = Second
    /\ last_text_block = GOODBYE

\* this step is the frame loop's turn for a frame that is not sampled
UnsampledFrameStep ==
    /\ pc = "DetectingTelops"
    /\ cap = "opened"
    /\ CeilFps(fps) > 0
    /\ frame_count % CeilFps(fps) # 0
    /\ frame_count' = frame_count + 1

\* C13: a sampled frame whose text block is empty, a sampled frame whose
\* non-empty text block has similarity >= 0.9 to a non-empty
\* last_text_block, and a frame that is not sampled, each leave the telop
\* list and last_text_block unchanged.
C13_NonNovelFramesChangeNothing ==
    [][ /\ ( /\ SampledFrameStep
             /\ \/ current_text_block' = <<>>
                \/ /\ last_text_block # <<>>
                   /\ SimilarAtLeastThreshold(last_text_block,
                                              current_text_block') )
           => UNCHANGED <<telop_screenshots, last_text_block>>
        /\ UnsampledFrameStep
           => UNCHANGED <<telop_screenshots, last_text_block>>
      ]_vars

\* at 2 frames per second: frame 0 emitted HELLOWORLD, frame 1 was not
\* sampled, frame 2 was sampled and had no text
C13_Witness ==
    /\ pc = "DetectingTelops"
    /\ fps = 2 * Tenth
    /\ frame_count = 3
    /\ ocr_data = OcrLow
    /\ current_text_block = <<>>
    /\ last_text_block = HELLO \o WORLD
    /\ Len(telop_screenshots) = 1

\* the frame loop of a source that opened has just been left, and not by
\* an exception of the OCR call
LoopLeft ==
    /\ cap \in {"opened", "released"}
    /\ pc = "Cleanup"
    /\ error # "TesseractError"

\* C17 as stated, for the runs in which every OCR call returned: for a
\* source with fps > 0 the frame loop is over only when the source is
\* exhausted, every frame read having been counted; every emitted
\* TelopEvent is of a frame whose index i satisfies i mod ceil(fps) = 0 and
\* has timestamp i / fps; and the emitted TelopEvents have strictly
\* increasing timestamps.
C17_SamplingCadenceAndExhaustion ==
    fps > 0 =>
        /\ LoopLeft => frame_count = n_frames
        /\ \A i \in 1..Len(telop_screenshots) :
               /\ telop_screenshots[i].image_str % CeilFps(fps) = 0
               /\ telop_screenshots[i].timestamp * fps
                      = telop_screenshots[i].image_str * Second * Tenth
        /\ \A i \in 1..(Len(telop_screenshots) - 1) :
               telop_screenshots[i].timestamp
                   < telop_screenshots[i + 1].timestamp

\* the text of the most recently emitted TelopEvent, or "" if there is none
LastEmittedText ==
    IF telop_screenshots = <<>> THEN <<>>
    ELSE telop_screenshots[Len(telop_screenshots)].text

\* C19: in every state last_text_block is the text of the most recently
\* emitted TelopEvent, or "" when none has been emitted; while the run
\* lasts a non-empty last_text_block never becomes empty; and a sampled
\* frame that shows the last emitted caption again emits nothing, whatever
\* frames came in between.
C19_LastTextBlockIsLastEmitted ==
    /\ last_text_block = LastEmittedText
    /\ [][ /\ last_text_block' = LastEmittedText'
           /\ ( /\ pc \in {"DetectingTelops", "Cleanup"}
                /\ last_text_block # <<>> )
              => last_text_block' # <<>>
           /\ ( /\ SampledFrameStep
                /\ current_text_block' = LastEmittedText )
              => telop_screenshots' = telop_screenshots
         ]_vars

\* HELLO was emitted on frame 0, frame 1 had no text and frame 2 showed
\* HELLO again: still one event
C19_Witness ==
    /\ pc = "DetectingTelops"
    /\ fps = Tenth
    /\ frame_count = 3
    /\ ocr_data = OcrH
    /\ current_text_block = HELLO
    /\ last_text_block = HELLO
    /\ Len(telop_screenshots) = 1
    /\ telop_screenshots[1].image_str = 0

\* C20: in every state every emitted TelopEvent has a non-empty text, and
\* every two events adjacent in the list have normalized edit-distance
\* similarity strictly below 0.9 to each other.
C20_EmittedTextsDiffer ==
    /\ \A i \in 1..Len(telop_screenshots) :
           telop_screenshots[i].text # <<>>
    /\ \A i \in 1..(Len(telop_screenshots) - 1) :
           ~SimilarAtLeastThreshold(telop_screenshots[i].text,
                                    telop_screenshots[i + 1].text)

\* HELLOWORLD was emitted on frame 0 and HELLOWORLD!? on frame 2, whatever
\* frame 1 showed (HELLOWORLD!, similar to both, is not emitted)
C20_Witness ==
    /\ pc = "DetectingTelops"
    /\ frame_count = 3
    /\ Len(telop_screenshots) = 2
    /\ telop_screenshots[1].text = HELLO \o WORLD
    /\ telop_screenshots[1].image_str = 0
    /\ telop_screenshots[2].text = HELLO \o WORLD \o <<"!", "?">>
    /\ telop_screenshots[2].image_str = 2

---------------------------------------------------------------------------
(* Event fusion *)

\* this step is the display logic building the buckets of the session's
\* results
DisplayStep == pc = "Display" /\ session_state.has_results

\* floor of a time in ms, in whole seconds
Floor(t) == t \div Second

\* the places of a grouping: bucket key, stream, position in the list
Places(g) ==
    UNION { { <<k, stream, j>> : j \in 1..Len(g.group[k][stream]) } :
              k \in DOMAIN g.group, stream \in {"voice", "telop"} }

EventAt(g, place) == g.group[place[1]][place[2]][place[3]]

IsVoiceOf(e, item) ==
    /\ e.type = "voice"
    /\ e.timestamp = item.timestamp
    /\ e.data = item.text

IsTelopOf(e, item) ==
    /\ e.type = "telop"
    /\ e.timestamp = item.timestamp
    /\ e.data = item.image_str
    /\ e.text = item.text

\* how often x occurs in the sequence q
Occurrences(q, x) == Cardinality({ i \in 1..Len(q) : q[i] = x })

\* every bucket holds only events whose floor(timestamp) is the bucket's
\* key, every placed event is an input, and every input is placed as often
\* as it occurs in its input list
Partitioned(voice, telop, g) ==
    /\ \A place \in Places(g) :
           LET e == EventAt(g, place)
           IN  /\ place[1] = Floor(e.timestamp)
               /\ \/ \E i \in 1..Len(voice) : IsVoiceOf(e, voice[i])
                  \/ \E i \in 1..Len(telop) : IsTelopOf(e, telop[i])
    /\ \A i \in 1..Len(voice) :
           Cardinality({ place \in Places(g) :
                           IsVoiceOf(EventAt(g, place), voice[i]) })
               = Occurrences(voice, voice[i])
    /\ \A i \in 1..Len(telop) :
           Cardinality({ place \in Places(g) :
                           IsTelopOf(EventAt(g, place), telop[i]) })
               = Occurrences(telop, telop[i])

\* C6: for every pair of input lists the display logic groups, every input
\* event is in exactly one bucket exactly once, nothing else is in any
\* bucket, and the bucket's key is floor(timestamp).
C6_BucketingPartitions ==
    [][ DisplayStep =>
            Partitioned(session_state.results[1], session_state.results[2],
                        grouped_events') ]_vars

\* two equal voice segments and a telop event share bucket 0
C6_Witness ==
    /\ pc = "Idle"
    /\ 0 \in DOMAIN grouped_events.group
    /\ Len(grouped_events.group[0].voice) = 2
    /\ grouped_events.group[0].voice[1] = grouped_events.group[0].voice[2]
    /\ Len(grouped_events.group[0].telop) = 1

\* C7: the keys iterated for presentation are the buckets' keys in strictly
\* ascending order, so without duplicates.
C7_BucketsAscending ==
    [][ DisplayStep =>
            /\ \A i \in 1..(Len(sorted_timestamps') - 1) :
                   sorted_timestamps'[i] < sorted_timestamps'[i + 1]
            /\ { sorted_timestamps'[i] : i \in 1..Len(sorted_timestamps') }
                   = DOMAIN grouped_events'.group ]_vars

\* the buckets were created in the order 2, 0, 1 (voice out of order, then
\* telop) and are iterated as 0, 1, 2
C7_Witness ==
    /\ pc = "Idle"
    /\ grouped_events.keys = <<2, 0, 1>>
    /\ sorted_timestamps = <<0, 1, 2>>

\* the inputs of a stream that fall into bucket k, in input order
OfBucket(items, k) ==
    LET InBucket(item) == Floor(item.timestamp) = k
    IN  SelectSeq(items, InBucket)

\* C8: in every bucket the voice list is that bucket's voice segments in
\* transcript order and the telop list is that bucket's telop events in
\* detection order; the two streams stay in separate lists, and on the page
\* a bucket's voice column precedes its telop column, whatever their
\* sub-second times.
C8_StreamOrderPreserved ==
    [][ DisplayStep =>
            \A k \in DOMAIN grouped_events'.group :
                LET bucket == grouped_events'.group[k]
                    voice == OfBucket(session_state.results[1], k)
                    telop == OfBucket(session_state.results[2], k)
                IN  /\ Len(bucket.voice) = Len(voice)
                    /\ \A j \in 1..Len(voice) :
                           IsVoiceOf(bucket.voice[j], voice[j])
                    /\ Len(bucket.telop) = Len(telop)
                    /\ \A j \in 1..Len(telop) :
                           IsTelopOf(bucket.telop[j], telop[j])
                    /\ \A i, j \in 1..Len(rendered') :
                           ( /\ i < j
                             /\ rendered'[i].col = 2
                             /\ rendered'[j].col = 1 )
                           => \E r \in (i + 1)..(j - 1) :
                                  rendered'[r].kind = "rule" ]_vars

\* bucket 1 holds two voice segments in transcript order and a telop event
\* that is earlier than both
C8_Witness ==
    /\ pc = "Idle"
    /\ 1 \in DOMAIN grouped_events.group
    /\ Len(grouped_events.group[1].voice) = 2
    /\ grouped_events.group[1].voice[1].timestamp
           < grouped_events.group[1].voice[2].timestamp
    /\ Len(grouped_events.group[1].telop) = 1
    /\ grouped_events.group[1].telop[1].timestamp
           < grouped_events.group[1].voice[1].timestamp
    /\ Len(rendered) > 4

---------------------------------------------------------------------------
(* Presentation *)

\* the headings on the page
Headings == SelectSeq(rendered, LAMBDA r : r.kind = "heading")

\* the urls whose request produced the displayed result: those under which
\* st.cache_data holds it
RequestUrls ==
    { u \in Urls \ {NoUrl} :
        /\ cache[u] # None
        /\ session_state.has_results
        /\ cache[u] = session_state.results }

\* C15 as stated: whatever the user did since (edited the url field,
\* pressed the button, had a run fail), every time-anchor link on the page
\* is <base_url>&t=<bucket_key>s with base_url the part before the first
\* '&' of the url whose request produced the displayed result, and
\* bucket_key the integer second of a bucket.
C15_LinksUseRequestUrl ==
    rendered # <<>> =>
        \E u \in RequestUrls :
            \A i \in 1..Len(Headings) :
                /\ Headings[i].jump_url.base = Head(u)
                /\ Headings[i].jump_url.t \in DOMAIN grouped_events.group

\* the positions of the rules that end each bucket on the page
Rules == { i \in 1..Len(rendered) : rendered[i].kind = "rule" }

\* the positions of the headings of the b-th bucket on the page: those with
\* b - 1 rules before them
HeadingsOfBucket(b) ==
    { i \in 1..Len(rendered) :
        /\ rendered[i].kind = "heading"
        /\ Cardinality({ r \in Rules : r < i }) = b - 1 }

\* C16: every bucket on the page holds at least one voice or telop event
\* and has exactly one heading, labelled with the bucket's second: in the
\* voice column when the bucket has a voice event, in the telop column when
\* it has telop events and no voice event.
C16_OneHeadingPerBucket ==
    rendered # <<>> =>
        /\ Cardinality(Rules) = Len(sorted_timestamps)
        /\ \A b \in 1..Len(sorted_timestamps) :
               LET ts == sorted_timestamps[b]
                   group == grouped_events.group[ts]
               IN  /\ group.voice # <<>> \/ group.telop # <<>>
                   /\ Cardinality(HeadingsOfBucket(b)) = 1
                   /\ \A i \in HeadingsOfBucket(b) :
                          /\ rendered[i].col =
                                 IF group.voice # <<>> THEN 1 ELSE 2
                          /\ rendered[i].jump_url.t = ts
                          /\ rendered[i].time_str.s = ts % 60

\* a page with a bucket of voice and telop events (heading on the voice
\* side) followed by a bucket of telop events only (heading on the telop
\* side)
C16_Witness ==
    /\ pc = "Idle"
    /\ sorted_timestamps = <<0, 1>>
    /\ grouped_events.group[0].voice # <<>>
    /\ grouped_events.group[0].telop # <<>>
    /\ grouped_events.group[1].voice = <<>>
    /\ \E i \in HeadingsOfBucket(1) : rendered[i].col = 1
    /\ \E i \in HeadingsOfBucket(2) : rendered[i].col = 2

====
